---- MODULE Spec2Model ----
(***************************************************************************)
(* leptos-tea: the command queue (Cmd) and the message dispatcher          *)
(* (MsgDispatcher) of lib/src/lib.rs.                                      *)
(*                                                                         *)
(* One update invocation owns one Cmd.  The update function registers      *)
(* messages (msg, batch_msgs) and commands (cmd) on it; when the invocation*)
(* returns the Cmd is dropped and <Cmd as Drop>::drop hands every command  *)
(* to spawn_local and every message to queue_microtask.  Afterwards the    *)
(* host scheduler runs the scheduled callbacks and tasks, and event        *)
(* handlers of the view use the MsgDispatcher directly.                    *)
(*                                                                         *)
(* The host scheduler is not part of the crate (leptos_reactive's          *)
(* queue_microtask and spawn_local).  It is modelled at its interface:     *)
(*   - queue_microtask appends a callback to a FIFO microtask queue;       *)
(*   - spawn_local appends a task to a run queue; a task is polled for the *)
(*     first time in spawn order; a task whose awaited future is pending   *)
(*     leaves the run queue and is resumed when the future resolves, at a  *)
(*     time the model leaves open;                                         *)
(*   - the scheduler is single threaded: one callback or one task step at  *)
(*     a time, each run to its end or to its await; which of the two       *)
(*     queues is served next is left open;                                 *)
(*   - an event handler runs only when the microtask queue is drained.     *)
(***************************************************************************)
EXTENDS Integers, Sequences, FiniteSets, TLC

\* ------------------------------------------------------------------ bounds
\* Number of MsgDispatcher calls made by event handlers.
MaxCalls == 1
\* Total number of messages and commands handed to the Cmd and of messages
\* handed to the MsgDispatcher.
MaxIssued == 5

\* ------------------------------------------------------------------ values
\* The messages of the crate's example (enum Msg); Init is Msg::default().
Msg == {"Increment", "Decrement", "Init"}
\* The messages the update function registers on its Cmd.
Sent == {"Increment", "Decrement"}
\* The messages the commands resolve to and the event handlers send.
Later == {"Increment"}

\* Sequences over S of length 0..n.
SeqsUpTo(S, n) == UNION {[1..k -> S] : k \in 0..n}

\* The counter the model starts with: CounterModel is built "however you'd
\* like"; here large enough that `*c -= 1` cannot underflow the usize.
InitCounter == MaxIssued

\* The example's update function applied to the counter.
update(c, m) ==
  CASE m = "Increment" -> c + 1
    [] m = "Decrement" -> c - 1
    [] OTHER -> c

RECURSIVE update_all(_, _)
\* The counter after the store has applied the writes ws, one after another.
update_all(c, ws) ==
  IF ws = <<>> THEN c ELSE update_all(update(c, Head(ws).val), Tail(ws))

RECURSIVE SumLen(_)
SumLen(rs) == IF rs = <<>> THEN 0 ELSE Len(Head(rs)) + SumLen(Tail(rs))

VARIABLES
  pc,          \* "update": the invocation that owns the Cmd runs; "returned": the Cmd was dropped
  msgs,        \* Cmd.msgs
  cmds,        \* Cmd.cmds: each command is the result its future resolves to
  microtasks,  \* the host's microtask queue
  tasks,       \* the spawner's run queue: tasks not yet polled
  waiting,     \* command tasks suspended at `cmds.await`
  writes,      \* every write to the store's channel (MsgDispatcher::set), in order
  counter,     \* the example model's counter, as the store's update loop leaves it
  queued,      \* history: the messages registered on the Cmd, in order
  effects,     \* history: the commands registered on the Cmd, in order
  resolved,    \* history: the commands whose future has resolved
  delayed,     \* history: the commands whose future was pending at the first poll
  flushes,     \* history: how often drop has run
  handed,      \* history: what drop gave to the scheduler, in the order it gave it
  called       \* history: the MsgDispatcher calls made by event handlers, in order

vars == <<pc, msgs, cmds, microtasks, tasks, waiting, writes, counter,
          queued, effects, resolved, delayed, flushes, handed, called>>

\* Number of MsgDispatcher calls made so far, and of messages given to them.
calls == Len(called)

RECURSIVE SumCalled(_)
SumCalled(cs) == IF cs = <<>> THEN 0 ELSE Len(Head(cs).ms) + SumCalled(Tail(cs))

\* Messages and commands handed to the Cmd and messages handed to the
\* MsgDispatcher so far.
Issued == Len(queued) + Len(effects) + SumLen(effects) + SumCalled(called)

\* ------------------------------------------------------------- Cmd (lib.rs)
\* Mutant of new: the queue of messages starts with Msg::default() in it.
new_seeded == [msgs |-> <<"Init">>, cmds |-> <<>>]

\* Cmd::new: both queues empty.
new == [msgs |-> <<>>, cmds |-> <<>>]

Init ==
  /\ pc = "update"
  /\ msgs = new.msgs
  /\ cmds = new.cmds
  /\ microtasks = <<>>
  /\ tasks = <<>>
  /\ waiting = {}
  /\ writes = <<>>
  /\ counter = InitCounter
  /\ queued = <<>>
  /\ effects = <<>>
  /\ resolved = {}
  /\ delayed = {}
  /\ flushes = 0
  /\ handed = <<>>
  /\ called = <<>>

\* self.msgs.push(msg)
push_msg(q, m) == Append(q, m)

\* self.msgs.extend(msgs)
extend_msgs(q, ms) == q \o ms

\* self.cmds.push(Box::pin(cmd.map(..collect()))): the future is stored, not polled.
push_cmd(q, res) == Append(q, res)

\* Mutant of msg: the Cmd can still be reached after it was dropped.
msg_any_time(m) ==
  /\ Issued + 1 <= MaxIssued
  /\ msgs' = push_msg(msgs, m)
  /\ queued' = queued \o SubSeq(msgs', Len(msgs) + 1, Len(msgs'))
  /\ UNCHANGED <<pc, cmds, microtasks, tasks, waiting, writes, counter,
                 effects, resolved, delayed, flushes, handed, called>>

\* Mutant of msg: the message is given to queue_microtask at once as well.
msg_queued_now(m) ==
  /\ pc = "update"
  /\ Issued + 1 <= MaxIssued
  /\ msgs' = push_msg(msgs, m)
  /\ queued' = queued \o SubSeq(msgs', Len(msgs) + 1, Len(msgs'))
  /\ microtasks' = Append(microtasks, [val |-> m, src |-> <<"msg", Len(msgs'), 0>>])
  /\ UNCHANGED <<pc, cmds, tasks, waiting, writes, counter,
                 effects, resolved, delayed, flushes, handed, called>>

\* Cmd::msg
msg(m) ==
  /\ pc = "update"
  /\ Issued + 1 <= MaxIssued
  /\ msgs' = push_msg(msgs, m)
  /\ queued' = queued \o SubSeq(msgs', Len(msgs) + 1, Len(msgs'))
  /\ UNCHANGED <<pc, cmds, microtasks, tasks, waiting, writes, counter,
                 effects, resolved, delayed, flushes, handed, called>>

\* Cmd::batch_msgs
batch_msgs(ms) ==
  /\ pc = "update"
  /\ Issued + Len(ms) <= MaxIssued
  /\ msgs' = extend_msgs(msgs, ms)
  /\ queued' = queued \o SubSeq(msgs', Len(msgs) + 1, Len(msgs'))
  /\ UNCHANGED <<pc, cmds, microtasks, tasks, waiting, writes, counter,
                 effects, resolved, delayed, flushes, handed, called>>

\* Mutant of cmd: the future is given to spawn_local at once, not stored.
cmd_spawned(res) ==
  /\ pc = "update"
  /\ Issued + 1 + Len(res) <= MaxIssued
  /\ tasks' = Append(tasks, [kind |-> "cmd", src |-> <<"cmd", Len(effects) + 1, 0>>,
                              res |-> res, val |-> ""])
  /\ effects' = Append(effects, res)
  /\ UNCHANGED <<pc, msgs, cmds, microtasks, waiting, writes, counter,
                 queued, resolved, delayed, flushes, handed, called>>

\* Cmd::cmd
cmd(res) ==
  /\ pc = "update"
  /\ Issued + 1 + Len(res) <= MaxIssued
  /\ cmds' = push_cmd(cmds, res)
  /\ effects' = effects \o SubSeq(cmds', Len(cmds) + 1, Len(cmds'))
  /\ UNCHANGED <<pc, msgs, microtasks, tasks, waiting, writes, counter,
                 queued, resolved, delayed, flushes, handed, called>>

\* ------------------------------------------------------ drop (lib.rs 189-211)
\* What the scheduler holds for one message: the value and where it came from
\* (<<"msg", i, 0>>: the i-th message of the Cmd; <<"cmd", i, k>>: the k-th
\* message of the i-th command's result; <<call, c, k>>: the k-th message of
\* the c-th MsgDispatcher call).
item(m, src) == [val |-> m, src |-> src]

\* The task `spawn_local(async move { let mut cmds = cmds.await.into_iter(); .. })`
\* of the i-th command.
cmd_task(i, res) == [kind |-> "cmd", src |-> <<"cmd", i, 0>>, res |-> res, val |-> ""]

\* The task `spawn_local(async move { msg_dispatcher(msg) })` of one later message.
msg_task(i, k, m) == [kind |-> "msg", src |-> <<"cmd", i, k>>, res |-> <<>>, val |-> m]

\* Mutant of take: the queue is iterated in place and keeps its elements.
take_kept(q) == q

\* std::mem::take: the queue is left empty.
take(q) == <<>>

\* `for cmds in take(&mut self.cmds) { spawn_local(..) }`: the tasks spawned, in order.
spawn_cmds(cs) == [i \in 1..Len(cs) |-> cmd_task(i, cs[i])]

\* Mutant of queue_msgs: the messages are queued last to first (a pop loop).
queue_msgs_reversed(ms) ==
  [i \in 1..Len(ms) |-> item(ms[Len(ms) + 1 - i], <<"msg", Len(ms) + 1 - i, 0>>)]

\* Mutant of queue_msgs: only the first message is queued
\* (`if let Some(msg) = msgs.next()` in place of the loop).
queue_msgs_first(ms) ==
  IF ms = <<>> THEN <<>> ELSE <<item(ms[1], <<"msg", 1, 0>>)>>

\* Mutant of queue_msgs: the last message is never queued (an off-by-one).
queue_msgs_truncated(ms) ==
  [i \in 1..(Len(ms) - 1) |-> item(ms[i], <<"msg", i, 0>>)]

\* `for msg in take(&mut self.msgs) { queue_microtask(move || msg_dispatcher.set(msg)) }`:
\* the callbacks queued, in order.
queue_msgs(ms) == [i \in 1..Len(ms) |-> item(ms[i], <<"msg", i, 0>>)]

\* Mutant of first_msg: an empty result is replaced by Msg::default()
\* (`cmds.next().unwrap_or_default()`).
first_msg_default(t) ==
  IF t.res = <<>> THEN <<item("Init", <<"cmd", t.src[2], 1>>)>>
  ELSE <<item(t.res[1], <<"cmd", t.src[2], 1>>)>>

\* `if let Some(msg) = cmds.next() { msg_dispatcher(msg) }`: what the command's
\* task writes itself once its future has resolved.
first_msg(t) ==
  IF t.res = <<>> THEN <<>> ELSE <<item(t.res[1], <<"cmd", t.src[2], 1>>)>>

\* Mutant of rest_msgs: the later messages are spawned last to first.
rest_msgs_reversed(t) ==
  [k \in 1..(Len(t.res) - 1) |->
     msg_task(t.src[2], Len(t.res) + 1 - k, t.res[Len(t.res) + 1 - k])]

\* Mutant of rest_msgs: the loop runs over the whole result, the first
\* message included, which the task has written itself.
rest_msgs_all(t) ==
  [k \in 1..Len(t.res) |-> msg_task(t.src[2], k, t.res[k])]

\* `for msg in cmds { spawn_local(async move { msg_dispatcher(msg) }) }`: the
\* tasks spawned for the second and later messages, in order.
rest_msgs(t) ==
  [k \in 1..(Len(t.res) - 1) |-> msg_task(t.src[2], k + 1, t.res[k + 1])]

\* SignalSet::set on the store's channel for each of ws in turn; the store's
\* update loop applies the example's update function to each.
set(ws) ==
  /\ writes' = writes \o ws
  /\ counter' = update_all(counter, ws)

\* Where each of a sequence of tasks or callbacks came from.
srcs(q) == [p \in 1..Len(q) |-> q[p].src]

\* Mutant of flush_order: the two loops of drop are exchanged, the messages
\* are queued before the commands are spawned.
flush_order_msgs_first(cs, ms) == srcs(queue_msgs(ms)) \o srcs(spawn_cmds(cs))

\* The order of the calls drop makes into the scheduler: the loop over the
\* commands (spawn_local) runs to its end before the loop over the messages
\* (queue_microtask) starts.
flush_order(cs, ms) == srcs(spawn_cmds(cs)) \o srcs(queue_msgs(ms))

\* Mutant of drop: the first command is run to completion inside drop and its
\* first message written there.
drop_eager ==
  /\ pc = "update"
  /\ pc' = "returned"
  /\ tasks' = tasks \o spawn_cmds(cmds)
  /\ cmds' = take(cmds)
  /\ microtasks' = microtasks \o queue_msgs(msgs)
  /\ msgs' = take(msgs)
  /\ flushes' = flushes + 1
  /\ handed' = handed \o flush_order(cmds, msgs)
  /\ set(IF cmds # <<>> /\ cmds[1] # <<>>
         THEN <<item(cmds[1][1], <<"cmd", 1, 1>>)>> ELSE <<>>)
  /\ UNCHANGED <<waiting, queued, effects, resolved, delayed, called>>

\* Mutant of drop: the messages are written by drop itself
\* (`msg_dispatcher.set(msg)` without the queue_microtask).
drop_inline ==
  /\ pc = "update"
  /\ pc' = "returned"
  /\ tasks' = tasks \o spawn_cmds(cmds)
  /\ cmds' = take(cmds)
  /\ set(queue_msgs(msgs))
  /\ msgs' = take(msgs)
  /\ flushes' = flushes + 1
  /\ handed' = handed \o flush_order(cmds, msgs)
  /\ UNCHANGED <<microtasks, waiting, queued, effects, resolved, delayed, called>>

\* <Cmd as Drop>::drop, when the update invocation returns.
drop ==
  /\ pc = "update"
  /\ pc' = "returned"
  /\ tasks' = tasks \o spawn_cmds(cmds)
  /\ cmds' = take(cmds)
  /\ microtasks' = microtasks \o queue_msgs(msgs)
  /\ msgs' = take(msgs)
  /\ flushes' = flushes + 1
  /\ handed' = handed \o flush_order(cmds, msgs)
  /\ UNCHANGED <<waiting, writes, counter, queued, effects, resolved, delayed,
                 called>>

\* ------------------------------------------------------------ the scheduler
\* The microtask the host runs next: the oldest.
next_microtask == Head(microtasks)

\* The task the spawner polls next: the oldest not yet polled.
next_task == Head(tasks)

\* Mutant of run_microtask: one callback dispatches everything queued
\* (`queue_microtask(move || for msg in msgs { msg_dispatcher.set(msg) })`).
run_microtask_batch ==
  /\ pc = "returned"
  /\ microtasks # <<>>
  /\ set(microtasks)
  /\ microtasks' = <<>>
  /\ UNCHANGED <<pc, msgs, cmds, tasks, waiting, queued, effects, resolved,
                 delayed, flushes, handed, called>>

\* A callback queued with queue_microtask runs: `msg_dispatcher.set(msg)`.
run_microtask ==
  /\ pc = "returned"
  /\ microtasks # <<>>
  /\ set(<<item(next_microtask.val, next_microtask.src)>>)
  /\ microtasks' = Tail(microtasks)
  /\ UNCHANGED <<pc, msgs, cmds, tasks, waiting, queued, effects, resolved,
                 delayed, flushes, handed, called>>

\* Mutant of poll_ready: the command's task is run as a microtask behind the
\* callbacks of the messages (queue_microtask in place of spawn_local).
poll_ready_after_microtasks ==
  /\ pc = "returned"
  /\ microtasks = <<>>
  /\ tasks # <<>>
  /\ next_task.kind = "cmd"
  /\ set(first_msg(next_task))
  /\ tasks' = Tail(tasks) \o rest_msgs(next_task)
  /\ resolved' = resolved \cup {next_task.src[2]}
  /\ UNCHANGED <<pc, msgs, cmds, microtasks, waiting, queued, effects,
                 delayed, flushes, handed, called>>

\* A command's task is polled for the first time and its future is ready:
\* the task runs to its end.
poll_ready ==
  /\ pc = "returned"
  /\ tasks # <<>>
  /\ next_task.kind = "cmd"
  /\ set(first_msg(next_task))
  /\ tasks' = Tail(tasks) \o rest_msgs(next_task)
  /\ resolved' = resolved \cup {next_task.src[2]}
  /\ UNCHANGED <<pc, msgs, cmds, microtasks, waiting, queued, effects,
                 delayed, flushes, handed, called>>

\* A command's task is polled for the first time and its future is pending:
\* the task suspends at `cmds.await`.
poll_pending ==
  /\ pc = "returned"
  /\ tasks # <<>>
  /\ next_task.kind = "cmd"
  /\ tasks' = Tail(tasks)
  /\ waiting' = waiting \cup {next_task}
  /\ delayed' = delayed \cup {next_task.src[2]}
  /\ UNCHANGED <<pc, msgs, cmds, microtasks, writes, counter, queued, effects,
                 resolved, flushes, handed, called>>

\* Mutant of resume: the commands are awaited one after another, so a
\* suspended task resumes only when no earlier command is still suspended.
resume_in_turn(t) ==
  /\ pc = "returned"
  /\ t \in waiting
  /\ \A u \in waiting : u.src[2] >= t.src[2]
  /\ set(first_msg(t))
  /\ tasks' = tasks \o rest_msgs(t)
  /\ waiting' = waiting \ {t}
  /\ resolved' = resolved \cup {t.src[2]}
  /\ UNCHANGED <<pc, msgs, cmds, microtasks, queued, effects, delayed,
                 flushes, handed, called>>

\* Mutant of resume: the task writes every message of the result itself
\* (`for msg in cmds { msg_dispatcher(msg) }` without the spawn_local).
resume_all_inline(t) ==
  /\ pc = "returned"
  /\ t \in waiting
  /\ set([k \in 1..Len(t.res) |-> item(t.res[k], <<"cmd", t.src[2], k>>)])
  /\ tasks' = tasks
  /\ waiting' = waiting \ {t}
  /\ resolved' = resolved \cup {t.src[2]}
  /\ UNCHANGED <<pc, msgs, cmds, microtasks, queued, effects, delayed,
                 flushes, handed, called>>

\* The future a suspended task awaits resolves and the task runs to its end.
resume(t) ==
  /\ pc = "returned"
  /\ t \in waiting
  /\ set(first_msg(t))
  /\ tasks' = tasks \o rest_msgs(t)
  /\ waiting' = waiting \ {t}
  /\ resolved' = resolved \cup {t.src[2]}
  /\ UNCHANGED <<pc, msgs, cmds, microtasks, queued, effects, delayed,
                 flushes, handed, called>>

\* The task of a later message is polled: `msg_dispatcher(msg)`.
poll_msg ==
  /\ pc = "returned"
  /\ tasks # <<>>
  /\ next_task.kind = "msg"
  /\ set(<<item(next_task.val, next_task.src)>>)
  /\ tasks' = Tail(tasks)
  /\ UNCHANGED <<pc, msgs, cmds, microtasks, waiting, queued, effects,
                 resolved, delayed, flushes, handed, called>>

\* ---------------------------------------------- MsgDispatcher (lib.rs 213-306)
\* An event handler may run: no update invocation is running and the
\* microtask queue is drained.
handler(op, ms) ==
  /\ pc = "returned"
  /\ microtasks = <<>>
  /\ calls < MaxCalls
  /\ Issued + Len(ms) <= MaxIssued
  /\ called' = Append(called, [op |-> op, ms |-> ms])

\* `for msg in msgs { self.dispatch(msg) }`: the writes of batch, in order.
batch_writes(c, ms) == [i \in 1..Len(ms) |-> item(ms[i], <<"batch", c, i>>)]

\* `for msg in msgs { queue_microtask(move || self.dispatch(msg)) }`: the
\* callbacks of queue_batch, in order.
queue_batch_items(c, ms) ==
  [i \in 1..Len(ms) |-> item(ms[i], <<"queue_batch", c, i>>)]

\* MsgDispatcher::dispatch
dispatch(m) ==
  /\ handler("dispatch", <<m>>)
  /\ set(<<item(m, <<"dispatch", calls + 1, 1>>)>>)
  /\ UNCHANGED <<pc, msgs, cmds, microtasks, tasks, waiting, queued, effects,
                 resolved, delayed, flushes, handed>>

\* MsgDispatcher::queue_msg
queue_msg(m) ==
  /\ handler("queue_msg", <<m>>)
  /\ microtasks' = Append(microtasks, item(m, <<"queue_msg", calls + 1, 1>>))
  /\ UNCHANGED <<pc, msgs, cmds, tasks, waiting, writes, counter, queued,
                 effects, resolved, delayed, flushes, handed>>

\* Mutant of batch: each message is queued as a microtask, as queue_batch does.
batch_queued(ms) ==
  /\ handler("batch", ms)
  /\ microtasks' = microtasks \o batch_writes(calls + 1, ms)
  /\ UNCHANGED <<pc, msgs, cmds, tasks, waiting, writes, counter, queued,
                 effects, resolved, delayed, flushes, handed>>

\* MsgDispatcher::batch
batch(ms) ==
  /\ handler("batch", ms)
  /\ set(batch_writes(calls + 1, ms))
  /\ UNCHANGED <<pc, msgs, cmds, microtasks, tasks, waiting, queued, effects,
                 resolved, delayed, flushes, handed>>

\* Mutant of queue_batch: the first message is dispatched at once and only
\* the later ones are queued.
queue_batch_first_now(ms) ==
  /\ handler("queue_batch", ms)
  /\ set(IF ms = <<>> THEN <<>> ELSE <<Head(queue_batch_items(calls + 1, ms))>>)
  /\ microtasks' =
       microtasks \o (IF ms = <<>> THEN <<>> ELSE Tail(queue_batch_items(calls + 1, ms)))
  /\ UNCHANGED <<pc, msgs, cmds, tasks, waiting, queued, effects, resolved,
                 delayed, flushes, handed>>

\* MsgDispatcher::queue_batch
queue_batch(ms) ==
  /\ handler("queue_batch", ms)
  /\ microtasks' = microtasks \o queue_batch_items(calls + 1, ms)
  /\ UNCHANGED <<pc, msgs, cmds, tasks, waiting, writes, counter, queued,
                 effects, resolved, delayed, flushes, handed>>

\* ------------------------------------------------------------ specification
Next ==
  \/ \E m \in Sent : msg(m)
  \/ \E ms \in SeqsUpTo(Sent, MaxIssued) : batch_msgs(ms)
  \/ \E res \in SeqsUpTo(Later, MaxIssued) : cmd(res)
  \/ drop
  \/ run_microtask
  \/ poll_ready
  \/ poll_pending
  \/ \E t \in waiting : resume(t)
  \/ poll_msg
  \/ \E m \in Later : dispatch(m)
  \/ \E m \in Later : queue_msg(m)
  \/ \E ms \in SeqsUpTo(Later, MaxIssued) : batch(ms)
  \/ \E ms \in SeqsUpTo(Later, MaxIssued) : queue_batch(ms)

Spec == Init /\ [][Next]_vars

\* The scheduler keeps running: a queued microtask is run and a spawned task
\* is polled.  Nothing makes a pending future resolve, and nothing makes an
\* event handler run.
Fairness ==
  /\ WF_vars(run_microtask)
  /\ WF_vars(poll_ready \/ poll_pending)
  /\ WF_vars(poll_msg)

FairSpec == Spec /\ Fairness

\* ------------------------------------------------------------------ claims
\* The write that came from src has happened, and its place in the writes.
Written(src) == \E p \in 1..Len(writes) : writes[p].src = src
At(src) == CHOOSE p \in 1..Len(writes) : writes[p].src = src

\* Nothing is scheduled and no task is suspended.
Quiescent ==
  pc = "returned" /\ microtasks = <<>> /\ tasks = <<>> /\ waiting = {}

\* C1: the messages registered with msg()/batch_msgs() on one Cmd reach the
\* store in the order of registration: the j-th is written only after the
\* i-th for i < j, each with the value registered, whatever else is written
\* in between.
MsgsWrittenInOrder ==
  \A j \in 1..Len(queued) :
    Written(<<"msg", j, 0>>) =>
      /\ writes[At(<<"msg", j, 0>>)].val = queued[j]
      /\ \A i \in 1..(j - 1) :
           /\ Written(<<"msg", i, 0>>)
           /\ At(<<"msg", i, 0>>) < At(<<"msg", j, 0>>)

\* C1 witness: three messages, of two values, all written, with a write of
\* another origin between the first and the second.
MsgsWrittenInOrderWitness ==
  /\ Len(queued) = 3
  /\ queued[1] # queued[2]
  /\ \A i \in 1..3 : Written(<<"msg", i, 0>>)
  /\ \E p \in 1..Len(writes) :
       /\ At(<<"msg", 1, 0>>) < p
       /\ p < At(<<"msg", 2, 0>>)
       /\ writes[p].src[1] # "msg"

\* C2: the messages of one command's result are written in the order of the
\* result: for a result [a, b, c], a before b and b before c.
ResultWrittenInOrder ==
  \A i \in 1..Len(effects) :
    \A k \in 1..Len(effects[i]) :
      Written(<<"cmd", i, k>>) =>
        /\ writes[At(<<"cmd", i, k>>)].val = effects[i][k]
        /\ \A h \in 1..(k - 1) :
             /\ Written(<<"cmd", i, h>>)
             /\ At(<<"cmd", i, h>>) < At(<<"cmd", i, k>>)

\* C2 witness: a command whose future was pending at first resolves to three
\* messages; all three are written, with a write of another origin between
\* the second and the third.
ResultWrittenInOrderWitness ==
  \E i \in 1..Len(effects) :
    /\ Len(effects[i]) = 3
    /\ i \in delayed
    /\ \A k \in 1..3 : Written(<<"cmd", i, k>>)
    /\ \E p \in 1..Len(writes) :
         /\ At(<<"cmd", i, 2>>) < p
         /\ p < At(<<"cmd", i, 3>>)

\* The elements of a sequence.
Range(q) == {q[p] : p \in 1..Len(q)}

\* Every message registered on the Cmd has been written.
AllQueuedWritten == \A i \in 1..Len(queued) : Written(<<"msg", i, 0>>)

\* Every message of the i-th command's result has been written.
AllResultWritten(i) ==
  i \in 1..Len(effects) =>
    \A k \in 1..Len(effects[i]) : Written(<<"cmd", i, k>>)

\* A step discards nothing: a queued callback stays queued until it has
\* written its message, a spawned task stays with the spawner until it has
\* written its message (a later message's task) or its future has resolved
\* (a command's task).
NoDiscard ==
  /\ \A x \in Range(microtasks) :
       \/ x \in Range(microtasks')
       \/ \E p \in 1..Len(writes') : writes'[p] = x
  /\ \A t \in Range(tasks) \cup waiting :
       \/ t \in Range(tasks') \cup waiting'
       \/ /\ t.kind = "msg"
          /\ \E p \in 1..Len(writes') : writes'[p] = item(t.val, t.src)
       \/ /\ t.kind = "cmd"
          /\ t.src[2] \in resolved'

\* Every message registered on the Cmd and every message of the result of
\* every command resolved so far has been written.
Settled == AllQueuedWritten /\ \A i \in resolved : AllResultWritten(i)

\* C3: once the Cmd is dropped every message registered on it is eventually
\* written; once a command's future has resolved every message of its result
\* is eventually written (the Cmd stays dropped and a command stays resolved,
\* so both follow from: after the drop, Settled holds again and again); and
\* no step cancels or discards a scheduled callback or a spawned task.
\* (Under FairSpec: the scheduler keeps running.)
CommittedToDelivery ==
  /\ (pc = "returned") ~> Settled
  /\ [][NoDiscard]_vars

\* C3 witness: two messages and a command resolving to two messages, the
\* command resolved after a delay, everything written.
CommittedToDeliveryWitness ==
  /\ Quiescent
  /\ Len(queued) = 2
  /\ AllQueuedWritten
  /\ \E i \in 1..Len(effects) :
       /\ Len(effects[i]) = 2
       /\ i \in delayed
       /\ i \in resolved
       /\ AllResultWritten(i)

\* How often src occurs in a queue of scheduled items or tasks.
Count(q, src) == Cardinality({p \in 1..Len(q) : q[p].src = src})

\* The places of the writes that came from the i-th command.
CmdWrites(i) ==
  {p \in 1..Len(writes) : writes[p].src[1] = "cmd" /\ writes[p].src[2] = i}

\* C4: both queues of the Cmd are drained exactly once, when the update
\* invocation ends: before the flush nothing has been handed to the
\* scheduler; the flush runs once and leaves both queues empty; each message
\* and each command was handed over exactly once; the queues stay empty.
DrainedOnce ==
  /\ flushes = IF pc = "update" THEN 0 ELSE 1
  /\ pc = "update" =>
       /\ msgs = queued
       /\ cmds = effects
       /\ microtasks = <<>> /\ tasks = <<>> /\ waiting = {} /\ writes = <<>>
  /\ pc = "returned" =>
       /\ msgs = <<>>
       /\ cmds = <<>>
       /\ \A i \in 1..Len(queued) :
            Count(microtasks, <<"msg", i, 0>>) + Count(writes, <<"msg", i, 0>>) = 1
       /\ \A i \in 1..Len(effects) :
            Count(tasks, <<"cmd", i, 0>>)
              + Cardinality({t \in waiting : t.src[2] = i})
              + (IF i \in resolved THEN 1 ELSE 0) = 1

\* C4 witness: a Cmd with two messages and two commands has been flushed and
\* the scheduler has run since.
DrainedOnceWitness ==
  /\ pc = "returned"
  /\ Len(queued) = 2
  /\ Len(effects) = 2
  /\ Len(writes) >= 2
  /\ resolved # {}

\* What a command's task writes first once its future has resolved.
FirstWrite(t) == item(t.res[1], <<"cmd", t.src[2], 1>>)

\* C5: the first messages of two commands of one Cmd can reach the store in
\* either order.  While both tasks are suspended, either one may resume and
\* write its first message next; while both are still to be polled, the
\* first-registered may write its first message next (its future is ready) or
\* suspend and leave the way to the other.
EitherCmdFirst ==
  /\ \A t1 \in waiting : \A t2 \in waiting :
       (t1 # t2 /\ t1.res # <<>> /\ t2.res # <<>>) =>
         ENABLED (resume(t1) /\ writes' = Append(writes, FirstWrite(t1)))
  /\ (Len(tasks) >= 2 /\ tasks[1].kind = "cmd" /\ tasks[2].kind = "cmd"
        /\ tasks[1].res # <<>> /\ tasks[2].res # <<>>) =>
       /\ ENABLED (poll_ready /\ writes' = Append(writes, FirstWrite(tasks[1])))
       /\ ENABLED (poll_pending /\ tasks'[1] = tasks[2])

\* C5 witness: the first message of the second-registered command was
\* written before the first message of the first-registered one.
EitherCmdFirstWitness ==
  /\ Written(<<"cmd", 1, 1>>)
  /\ Written(<<"cmd", 2, 1>>)
  /\ At(<<"cmd", 2, 1>>) < At(<<"cmd", 1, 1>>)

\* C6: a command that resolves to an empty result causes no write and no
\* further task.
EmptyResultSilent ==
  \A i \in 1..Len(effects) :
    effects[i] = <<>> =>
      /\ CmdWrites(i) = {}
      /\ \A t \in Range(tasks) : ~(t.kind = "msg" /\ t.src[2] = i)
      /\ \A x \in Range(microtasks) : ~(x.src[1] = "cmd" /\ x.src[2] = i)

\* C6 witness: a command with an empty result has resolved after a delay,
\* while another command's message was written.
EmptyResultSilentWitness ==
  \E i \in 1..Len(effects) :
    /\ effects[i] = <<>>
    /\ i \in delayed
    /\ i \in resolved
    /\ \E p \in 1..Len(writes) : writes[p].src[1] = "cmd"

\* C7: a command that resolves to a single message is written exactly once,
\* with that message, and only once its future has resolved: no write of it
\* exists after the flush or while its task is suspended.
SingleResultWrittenOnResolve ==
  \A i \in 1..Len(effects) :
    Len(effects[i]) = 1 =>
      /\ Cardinality(CmdWrites(i)) = IF i \in resolved THEN 1 ELSE 0
      /\ \A p \in CmdWrites(i) :
           writes[p] = item(effects[i][1], <<"cmd", i, 1>>)

\* C7 witness: a command with a single message resolved after a delay, after
\* other writes, and its message was written once.
SingleResultWrittenOnResolveWitness ==
  \E i \in 1..Len(effects) :
    /\ Len(effects[i]) = 1
    /\ i \in delayed
    /\ i \in resolved
    /\ Cardinality(CmdWrites(i)) = 1
    /\ \E p \in CmdWrites(i) : p > 1

\* C8: batch([m1, .., mn]) writes m1..mn in order in one step: from the call
\* on, the n writes stand next to each other in the writes, nothing between
\* them, and none of them waits with the scheduler.
BatchAtomic ==
  \A c \in 1..Len(called) :
    called[c].op = "batch" =>
      /\ \E p \in 0..Len(writes) :
           \A i \in 1..Len(called[c].ms) :
             /\ p + i <= Len(writes)
             /\ writes[p + i] = item(called[c].ms[i], <<"batch", c, i>>)
      /\ \A x \in Range(microtasks) \cup Range(tasks) : x.src[1] # "batch"

\* C8 witness: a batch of two messages was called while a command's task was
\* suspended; writes precede and follow the two, which are adjacent.
BatchAtomicWitness ==
  \E c \in 1..Len(called) :
    /\ called[c].op = "batch"
    /\ Len(called[c].ms) = 2
    /\ At(<<"batch", c, 1>>) > 1
    /\ At(<<"batch", c, 2>>) = At(<<"batch", c, 1>>) + 1
    /\ At(<<"batch", c, 2>>) < Len(writes)
    /\ writes[Len(writes)].src[1] = "cmd"
    /\ writes[Len(writes)].src[2] \in delayed

\* Each message of a queue_batch call waits in the microtask queue or has
\* been written, once; the writes follow the order of the iterable.
QueueBatchQueued ==
  \A c \in 1..Len(called) :
    called[c].op = "queue_batch" =>
      \A i \in 1..Len(called[c].ms) :
        /\ Count(microtasks, <<"queue_batch", c, i>>)
             + Count(writes, <<"queue_batch", c, i>>) = 1
        /\ Written(<<"queue_batch", c, i>>) =>
             /\ writes[At(<<"queue_batch", c, i>>)].val = called[c].ms[i]
             /\ \A h \in 1..(i - 1) :
                  /\ Written(<<"queue_batch", c, h>>)
                  /\ At(<<"queue_batch", c, h>>) < At(<<"queue_batch", c, i>>)

\* Other scheduled work is ready to run.
OtherWork == poll_ready \/ poll_pending \/ poll_msg \/ \E t \in waiting : resume(t)

\* Between two messages of a queue_batch call the scheduler is free to run
\* other work: with the first written and the second still queued, a spawned
\* or suspended task can take the next step.
QueueBatchInterleavable ==
  \A c \in 1..Len(called) :
    (/\ called[c].op = "queue_batch"
     /\ Len(called[c].ms) >= 2
     /\ Written(<<"queue_batch", c, 1>>)
     /\ microtasks # <<>>
     /\ Head(microtasks).src = <<"queue_batch", c, 2>>
     /\ (tasks # <<>> \/ waiting # {})) =>
      ENABLED (OtherWork /\ microtasks' = microtasks)

\* The call itself writes nothing.
QueueBatchCallWritesNothing ==
  (Len(called') = Len(called) + 1 /\ called'[Len(called')].op = "queue_batch") =>
    /\ writes' = writes
    /\ microtasks' =
         microtasks \o queue_batch_items(Len(called'), called'[Len(called')].ms)

\* A message of a queue_batch call is written by a microtask of its own: the
\* step that writes it runs the head of the microtask queue and writes
\* nothing else.
QueueBatchOneEach ==
  \A p \in 1..Len(writes') :
    (p > Len(writes) /\ writes'[p].src[1] = "queue_batch") =>
      /\ Len(writes') = Len(writes) + 1
      /\ microtasks # <<>>
      /\ Head(microtasks) = writes'[p]
      /\ microtasks' = Tail(microtasks)

\* C9: queue_batch([m1, m2]) writes nothing during the call; m1 and m2 are
\* each written by a microtask of its own, m1 before m2; and other scheduled
\* work can run between the two writes.
QueueBatchDeferred ==
  /\ [](QueueBatchQueued /\ QueueBatchInterleavable)
  /\ [][QueueBatchCallWritesNothing /\ QueueBatchOneEach]_vars

\* C9 witness: m1 and m2 of a queue_batch call were written and a write of
\* another origin stands between them.
QueueBatchDeferredWitness ==
  \E c \in 1..Len(called) :
    /\ called[c].op = "queue_batch"
    /\ Len(called[c].ms) = 2
    /\ Written(<<"queue_batch", c, 1>>)
    /\ Written(<<"queue_batch", c, 2>>)
    /\ At(<<"queue_batch", c, 2>>) > At(<<"queue_batch", c, 1>>) + 1

\* C10: n Increment messages registered with msg() and nothing else: once
\* the Cmd is flushed and the scheduler has run everything, the store has
\* applied Increment n times and the counter is its initial value plus n.
CounterAfterIncrements ==
  (/\ Quiescent
   /\ \A i \in 1..Len(queued) : queued[i] = "Increment"
   /\ SumLen(effects) = 0
   /\ called = <<>>) =>
    /\ Len(writes) = Len(queued)
    /\ \A p \in 1..Len(writes) : writes[p].val = "Increment"
    /\ counter = InitCounter + Len(queued)

\* C10 witness: the spec's scenario, n = 2.
CounterAfterIncrementsWitness ==
  /\ Quiescent
  /\ queued = <<"Increment", "Increment">>
  /\ SumLen(effects) = 0
  /\ called = <<>>
  /\ counter = InitCounter + 2

\* The scheduled items, tasks and writes that came from the Cmd.
FromCmd(q) == {p \in 1..Len(q) : q[p].src[1] \in {"msg", "cmd"}}

\* C11: a Cmd on which msg(), batch_msgs() and cmd() were never called does
\* nothing when it is dropped: the drop hands nothing to the scheduler, and
\* no write, no queued callback, no spawned task and no suspended task ever
\* comes from it.
UnusedCmdSilent ==
  (pc = "returned" /\ queued = <<>> /\ effects = <<>>) =>
    /\ handed = <<>>
    /\ FromCmd(writes) = {}
    /\ FromCmd(microtasks) = {}
    /\ FromCmd(tasks) = {}
    /\ waiting = {}

\* C11 witness: an unused Cmd was dropped, and the store has since been
\* written to by an event handler.
UnusedCmdSilentWitness ==
  /\ flushes = 1
  /\ queued = <<>>
  /\ effects = <<>>
  /\ writes # <<>>

\* Nothing has reached the scheduler or the store.
NothingScheduled ==
  /\ writes = <<>>
  /\ microtasks = <<>>
  /\ tasks = <<>>
  /\ waiting = {}
  /\ handed = <<>>

\* C12: msg() and batch_msgs() only append to Cmd.msgs: a step that makes
\* msgs longer keeps what msgs held as a prefix and changes neither cmds nor
\* the writes, the microtask queue, the spawned tasks or the suspended tasks;
\* and as long as the Cmd has not been dropped nothing has been written,
\* queued or spawned.
MsgOnlyAppends ==
  /\ [](pc = "update" => NothingScheduled)
  /\ [][Len(msgs') > Len(msgs) =>
          /\ SubSeq(msgs', 1, Len(msgs)) = msgs
          /\ UNCHANGED <<pc, cmds, effects, writes, counter, microtasks, tasks,
                         waiting, handed>>]_vars

\* C12 witness: before the drop, three messages of two values are pending
\* next to a command, and nothing is scheduled.
MsgOnlyAppendsWitness ==
  /\ pc = "update"
  /\ Len(msgs) = 3
  /\ msgs[1] # msgs[3]
  /\ cmds # <<>>
  /\ NothingScheduled

\* The commands whose task has been polled at least once.
Polled == resolved \cup delayed

\* C13: cmd() stores the future and does not run it: a step that makes cmds
\* longer only appends to it and spawns, polls and resolves nothing; as long
\* as the Cmd has not been dropped no task exists and no command has been
\* polled; every command's task was spawned by the drop, and a command is
\* polled for the first time by that task.
CmdNotStarted ==
  /\ [](pc = "update" => (tasks = <<>> /\ waiting = {} /\ Polled = {}))
  /\ [](\A t \in Range(tasks) \cup waiting :
          t.kind = "cmd" => t.src \in Range(handed))
  /\ [][/\ Len(cmds') > Len(cmds) =>
             /\ SubSeq(cmds', 1, Len(cmds)) = cmds
             /\ UNCHANGED <<pc, msgs, tasks, waiting, resolved, delayed, writes,
                            counter, microtasks, handed>>
        /\ \A i \in Polled' \ Polled :
             /\ tasks # <<>>
             /\ Head(tasks) = cmd_task(i, effects[i])
             /\ Head(tasks).src \in Range(handed)]_vars

\* C13 witness: two commands were registered and the Cmd dropped; the first
\* has resolved to a message, written since, while the second has not been
\* polled yet.
CmdNotStartedWitness ==
  /\ flushes = 1
  /\ Len(effects) = 2
  /\ 1 \in resolved
  /\ Written(<<"cmd", 1, 1>>)
  /\ 2 \notin Polled
  /\ tasks # <<>>

\* A call of msg(), batch_msgs() or cmd() on the Cmd.
Registers ==
  \/ \E m \in Sent : msg(m)
  \/ \E ms \in SeqsUpTo(Sent, MaxIssued) : batch_msgs(ms)
  \/ \E res \in SeqsUpTo(Later, MaxIssued) : cmd(res)

\* Everything registered on the Cmd was given to the scheduler by the drop
\* and the Cmd holds nothing back.
AllHandedOver ==
  /\ msgs = <<>>
  /\ cmds = <<>>
  /\ \A i \in 1..Len(queued) : <<"msg", i, 0>> \in Range(handed)
  /\ \A i \in 1..Len(effects) : <<"cmd", i, 0>> \in Range(handed)

EffectsHandedFirst ==
  /\ [](pc = "returned" =>
          /\ Len(handed) = Len(effects) + Len(queued)
          /\ \A i \in 1..Len(effects) : handed[i] = <<"cmd", i, 0>>
          /\ \A j \in 1..Len(queued) : handed[Len(effects) + j] = <<"msg", j, 0>>)
  /\ [][flushes' # flushes =>
          /\ tasks' = [i \in 1..Len(effects) |-> cmd_task(i, effects[i])]
          /\ microtasks' = [j \in 1..Len(queued) |-> item(queued[j], <<"msg", j, 0>>)]]_vars

\* C15 witness: two different commands and two messages were flushed; the
\* first message is written already and neither command has been polled.
EffectsHandedFirstWitness ==
  /\ pc = "returned"
  /\ Len(effects) = 2
  /\ effects[1] # effects[2]
  /\ Len(queued) = 2
  /\ Written(<<"msg", 1, 0>>)
  /\ Polled = {}

\* The writes that came from the messages registered on the Cmd.
MsgWrites(ws) == {p \in 1..Len(ws) : ws[p].src[1] = "msg"}

\* C16: the drop of a Cmd holding n messages queues exactly n callbacks, one
\* for each message; a callback writes its own message and nothing else, so
\* no step writes two of the messages; and after the drop each message is
\* either in exactly one queued callback or written exactly once.
OneCallbackPerMsg ==
  /\ [](pc = "returned" =>
          \A j \in 1..Len(queued) :
            Count(microtasks, <<"msg", j, 0>>) + Count(writes, <<"msg", j, 0>>) = 1)
  /\ [][/\ flushes' # flushes =>
             /\ Len(microtasks') = Len(microtasks) + Len(queued)
             /\ \A j \in 1..Len(queued) :
                  Count(microtasks', <<"msg", j, 0>>) = 1
        /\ MsgWrites(writes') # MsgWrites(writes) =>
             /\ microtasks # <<>>
             /\ writes' = Append(writes, Head(microtasks))
             /\ microtasks' = Tail(microtasks)]_vars

\* C16 witness: three messages were flushed; the first is written, the other
\* two wait in a callback each.
OneCallbackPerMsgWitness ==
  /\ pc = "returned"
  /\ Len(queued) = 3
  /\ Written(<<"msg", 1, 0>>)
  /\ Len(microtasks) = 2
  /\ Cardinality(MsgWrites(writes)) = 1

\* The step in which the task of the i-th command sees its future resolved:
\* the first message of the result, if there is one, is written in that very
\* step and nothing else is; each later message then has a task of its own
\* with the spawner and is not written yet.
FirstMsgOnResolve ==
  \A i \in resolved' \ resolved :
    /\ effects[i] # <<>> =>
         writes' = Append(writes, item(effects[i][1], <<"cmd", i, 1>>))
    /\ \A k \in 2..Len(effects[i]) :
         /\ Count(tasks', <<"cmd", i, k>>) = 1
         /\ Count(writes', <<"cmd", i, k>>) = 0

\* A later message of a result is written by the step of its own task, after
\* the step in which the command resolved, and that step writes nothing else.
LaterMsgByOwnTask ==
  \A i \in 1..Len(effects) : \A k \in 2..Len(effects[i]) :
    (Count(writes', <<"cmd", i, k>>) # Count(writes, <<"cmd", i, k>>)) =>
      /\ i \in resolved
      /\ Written(<<"cmd", i, 1>>)
      /\ tasks # <<>>
      /\ Head(tasks) = msg_task(i, k, effects[i][k])
      /\ writes' = Append(writes, item(effects[i][k], <<"cmd", i, k>>))

\* While a later message waits in its task, other pending work can take the
\* next step and leave that task waiting: a queued callback, or a suspended
\* command resuming.
LaterMsgInterleavable ==
  \A q \in 1..Len(tasks) :
    tasks[q].kind = "msg" =>
      /\ microtasks # <<>> => ENABLED (run_microtask /\ tasks' = tasks)
      /\ \A t \in waiting :
           ENABLED (resume(t) /\ Len(writes') >= Len(writes)
                              /\ SubSeq(tasks', 1, Len(tasks)) = tasks)

\* C17: when a command resolves to k >= 1 messages the first is written in
\* the step that sees the future resolved, each of the other k - 1 by a task
\* of its own in a later step, and other work can run in between.
FirstInlineRestSpawned ==
  /\ []LaterMsgInterleavable
  /\ [][FirstMsgOnResolve /\ LaterMsgByOwnTask]_vars

\* C17 witness: a command that was pending at first resolved to three
\* messages; between its first and its second message a write of another
\* origin took place, and the third still waits in its task.
FirstInlineRestSpawnedWitness ==
  \E i \in 1..Len(effects) :
    /\ Len(effects[i]) = 3
    /\ i \in delayed
    /\ Written(<<"cmd", i, 1>>)
    /\ Written(<<"cmd", i, 2>>)
    /\ At(<<"cmd", i, 2>>) > At(<<"cmd", i, 1>>) + 1
    /\ Count(tasks, <<"cmd", i, 3>>) = 1

\* A message of the Cmd waits in the callback the host runs next.
MsgNext == microtasks # <<>> /\ Head(microtasks).src[1] = "msg"

\* C18: between a message m of the Cmd and the first message e of a command
\* of the same Cmd neither order is fixed.  While m waits in its callback
\* and the command's task is next with the spawner, or is suspended, the
\* next write may be m (the callback runs) and it may be e (the task finds
\* its future resolved).
MsgCmdEitherOrder ==
  /\ (MsgNext /\ tasks # <<>> /\ Head(tasks).kind = "cmd" /\ Head(tasks).res # <<>>) =>
       /\ ENABLED (run_microtask /\ writes' = Append(writes, Head(microtasks)))
       /\ ENABLED (poll_ready /\ writes' = Append(writes, FirstWrite(Head(tasks))))
  /\ \A t \in waiting :
       (MsgNext /\ t.res # <<>>) =>
         /\ ENABLED (run_microtask /\ writes' = Append(writes, Head(microtasks)))
         /\ ENABLED (resume(t) /\ writes' = Append(writes, FirstWrite(t)))

\* C18 witness: of two messages of the Cmd the first was written before the
\* first message of a command and the second after it.
MsgCmdEitherOrderWitness ==
  /\ Len(queued) = 2
  /\ \E i \in 1..Len(effects) :
       /\ Written(<<"msg", 1, 0>>)
       /\ Written(<<"cmd", i, 1>>)
       /\ Written(<<"msg", 2, 0>>)
       /\ At(<<"msg", 1, 0>>) < At(<<"cmd", i, 1>>)
       /\ At(<<"cmd", i, 1>>) < At(<<"msg", 2, 0>>)

\* C19: the drop writes nothing itself, whatever the Cmd holds: the step of
\* the drop leaves the writes and the model's counter as they were, and every
\* step that writes is a later step, taken after the drop.
FlushWritesNothing ==
  [][/\ flushes' # flushes => (writes' = writes /\ counter' = counter)
     /\ writes' # writes => (flushes = 1 /\ flushes' = flushes)]_vars

\* C19 witness: right after the drop of a Cmd with two messages and a
\* command whose future is ready with a message: nothing is written yet, the
\* callbacks are queued and the task can run to its end at its first poll.
FlushWritesNothingWitness ==
  /\ flushes = 1
  /\ writes = <<>>
  /\ Len(microtasks) = 2
  /\ tasks # <<>>
  /\ Head(tasks).res # <<>>
  /\ ENABLED (poll_ready /\ writes' # writes)

\* The total length of the results of the commands resolved so far.
ResolvedLen ==
  SumLen([i \in 1..Len(effects) |-> IF i \in resolved THEN effects[i] ELSE <<>>])

\* C20: nothing registered on the Cmd is delivered twice.  Each message of
\* the Cmd and each message of a command's result is written at most once;
\* every write that comes from the Cmd is one of its messages or a message of
\* the result of a resolved command, with that value; so the writes that come
\* from the Cmd number at most the messages registered plus the messages of
\* the results of the resolved commands.
DeliveredAtMostOnce ==
  /\ \A j \in 1..Len(queued) : Count(writes, <<"msg", j, 0>>) <= 1
  /\ \A i \in 1..Len(effects) : \A k \in 1..Len(effects[i]) :
       Count(writes, <<"cmd", i, k>>) <= 1
  /\ \A p \in FromCmd(writes) :
       \/ /\ writes[p].src[1] = "msg"
          /\ writes[p].src[2] \in 1..Len(queued)
          /\ writes[p].src[3] = 0
          /\ writes[p].val = queued[writes[p].src[2]]
       \/ /\ writes[p].src[1] = "cmd"
          /\ writes[p].src[2] \in resolved
          /\ writes[p].src[3] \in 1..Len(effects[writes[p].src[2]])
          /\ writes[p].val = effects[writes[p].src[2]][writes[p].src[3]]
  /\ Cardinality(FromCmd(writes)) <= Len(queued) + ResolvedLen

\* C20 witness: a message and two commands of one message each; the message
\* and the result of the command that resolved are written, once each, and
\* the other command is still suspended.
DeliveredAtMostOnceWitness ==
  /\ Len(queued) = 1
  /\ Len(effects) = 2
  /\ Len(effects[1]) = 1
  /\ Len(effects[2]) = 1
  /\ Cardinality(resolved) = 1
  /\ waiting # {}
  /\ Cardinality(FromCmd(writes)) = 2
  /\ microtasks = <<>>
  /\ tasks = <<>>

====
